---- MODULE Spec2Model ----
(***************************************************************************)
(* A model of media/jni/android_media_MediaDescrambler.cpp: the JNI entry  *)
(* points native_setup / native_release / native_descramble of one         *)
(* MediaDescrambler object, the JDescrambler session behind it (shared     *)
(* memory region, descriptor, lock) and the helpers getSubSampleInfo,      *)
(* getBufferAndSize and ensureBufferCapacity.                              *)
(*                                                                         *)
(* Integer widths.  TLC's integers are 32 bits wide, so the 32-bit types   *)
(* of the program (jint, uint32_t) are modelled IntBits wide, and every    *)
(* constant the program derives from the width (INT32_MAX, the uint32_t    *)
(* modulus, the subsample count limit) is derived from IntBits the same    *)
(* way.  ssize_t and size_t are as wide as jint on an ILP32 build and      *)
(* twice as wide on an LP64 build; the variable lp64 is the build.         *)
(***************************************************************************)
EXTENDS Integers, Sequences, FiniteSets, TLC

\* Width in bits of jint and uint32_t in the model (32 in the program).
IntBits == 18

\* sizeof(SubSample): two uint32_t fields (used at line 248).
SizeofSubSample == 8

\* The allocation granule of ensureBufferCapacity ("multiples of 64K").
Granule == 65536

\* Number of native_descramble calls one behaviour issues.
MaxCalls == 2

\* Longest clear/encrypted length array a caller passes.
MaxSubSamples == 2

\* A null jintArray argument.  (A non-null array of length 0 is not among the
\* inputs of the model.)
NULL == <<>>

INT32_MAX == 2 ^ (IntBits - 1) - 1
INT32_MIN == 0 - 2 ^ (IntBits - 1)
UINT32_MOD == 2 ^ IntBits
UINT32_MAX == UINT32_MOD - 1

\* (signed)(INT32_MAX / sizeof(SubSample)), line 248.
MAX_COUNT == INT32_MAX \div SizeofSubSample

\* Conversion of an integer to uint32_t (value modulo 2^w).
ToUint32(x) == x % UINT32_MOD

\* Conversion of an integer to jint / int32_t (two's complement wrap).
ToInt32(x) ==
    LET u == x % UINT32_MOD
    IN  IF u > INT32_MAX THEN u - UINT32_MOD ELSE u

\* Conversion to ssize_t.  On ILP32 ssize_t is as wide as jint.  On LP64 it
\* is twice as wide: every value the program converts is a sum of fewer than
\* MAX_COUNT terms below 2^w, or a single uint32_t, so it is below 2^(2w-1)
\* and the conversion is the identity.
ToSsize(is64, x) == IF is64 THEN x ELSE ToInt32(x)

(***************************************************************************)
(* Memory.  A block of bytes is a run-length encoded sequence of runs      *)
(* [n, b]: n consecutive bytes of value b.  The encoding is kept normal    *)
(* (no empty run, no two adjacent runs of one value) so that equal blocks  *)
(* are equal values.                                                       *)
(***************************************************************************)
Run(n, b) == [n |-> n, b |-> b]

RECURSIVE MemLen(_)
MemLen(m) == IF m = <<>> THEN 0 ELSE Head(m).n + MemLen(Tail(m))

RECURSIVE MemDrop(_, _)
MemDrop(m, k) ==
    IF k <= 0 \/ m = <<>> THEN m
    ELSE IF Head(m).n <= k THEN MemDrop(Tail(m), k - Head(m).n)
    ELSE <<Run(Head(m).n - k, Head(m).b)>> \o Tail(m)

RECURSIVE MemTake(_, _)
MemTake(m, k) ==
    IF k <= 0 \/ m = <<>> THEN <<>>
    ELSE IF Head(m).n <= k THEN <<Head(m)>> \o MemTake(Tail(m), k - Head(m).n)
    ELSE <<Run(k, Head(m).b)>>

RECURSIVE MemNorm(_)
MemNorm(m) ==
    IF Len(m) < 2 THEN m
    ELSE IF m[1].b = m[2].b
         THEN MemNorm(<<Run(m[1].n + m[2].n, m[1].b)>> \o Tail(Tail(m)))
         ELSE <<m[1]>> \o MemNorm(Tail(m))

\* The k bytes of m starting at byte off.
MemSlice(m, off, k) == MemNorm(MemTake(MemDrop(m, off), k))

\* m with the bytes s written at byte off.
MemWrite(m, off, s) ==
    MemNorm(MemTake(m, off) \o s \o MemDrop(m, off + MemLen(s)))

\* A block of n bytes of value b.
MemFill(n, b) == IF n = 0 THEN <<>> ELSE <<Run(n, b)>>

\* An access of k bytes at byte off stays inside the block m.
InBounds(m, off, k) == k = 0 \/ (off >= 0 /\ off + k <= MemLen(m))

(***************************************************************************)
(* getSubSampleInfo, lines 243-305.  clear and enc are the two jintArray   *)
(* arguments: NULL or a sequence of jint.  resizeOk is whether             *)
(* outSubSamples->resize() left a non-null data().  The result records,    *)
(* beside the returned ssize_t and the batch written to *outSubSamples,    *)
(* what the function did on the way: whether it resized the batch, whether *)
(* it acquired an array's elements (GetIntArrayElements), how many array   *)
(* elements it read, and whether a read fell outside its array (oob: the   *)
(* loop reads element i of an array shorter than numSubSamples, which is   *)
(* undefined; ret is then meaningless).                                    *)
(***************************************************************************)
\* A batch entry that drops the encrypted length; C4 fails with it.
SubSampleAtClearOnly(clear, enc, i) ==
    [numBytesOfClearData     |-> IF clear = NULL THEN 0 ELSE ToUint32(clear[i]),
     numBytesOfEncryptedData |-> 0]

\* subSamples[i] as stored at lines 277-282: jint converted to uint32_t.
SubSampleAt(clear, enc, i) ==
    [numBytesOfClearData     |-> IF clear = NULL THEN 0 ELSE ToUint32(clear[i]),
     numBytesOfEncryptedData |-> IF enc = NULL THEN 0 ELSE ToUint32(enc[i])]

\* One pass of the loop body's accumulation, lines 284-285: the two uint32_t
\* fields are added as uint32_t, the sum is added to the ssize_t accumulator.
RECURSIVE TotalSizeFrom(_, _, _, _, _, _)
TotalSizeFrom(is64, clear, enc, n, i, totalSize) ==
    IF i > n THEN totalSize
    ELSE LET s == SubSampleAt(clear, enc, i)
             pair == ToUint32(s.numBytesOfClearData + s.numBytesOfEncryptedData)
         IN  TotalSizeFrom(is64, clear, enc, n, i + 1,
                           ToSsize(is64, totalSize + pair))

\* A guard that lets the counts 0 and MAX_COUNT through; C5 fails with it.
CountRejectedOffByOne(numSubSamples) ==
    numSubSamples < 0 \/ numSubSamples > MAX_COUNT

\* The guard of lines 247-249.
CountRejected(numSubSamples) ==
    numSubSamples <= 0 \/ numSubSamples >= MAX_COUNT

getSubSampleInfo(is64, numSubSamples, clear, enc, resizeOk) ==
    IF CountRejected(numSubSamples)
    THEN [ret |-> -1, subSamples |-> <<>>, resized |-> FALSE,
          acquired |-> FALSE, reads |-> 0, oob |-> FALSE]
    ELSE IF ~resizeOk
    THEN [ret |-> -1, subSamples |-> <<>>, resized |-> TRUE,
          acquired |-> (clear # NULL \/ enc # NULL), reads |-> 0,
          oob |-> FALSE]
    ELSE IF \/ (clear # NULL /\ Len(clear) < numSubSamples)
            \/ (enc # NULL /\ Len(enc) < numSubSamples)
    THEN [ret |-> -1, subSamples |-> <<>>, resized |-> TRUE,
          acquired |-> TRUE, reads |-> Len(clear) + Len(enc) + 1,
          oob |-> TRUE]
    ELSE LET totalSize ==
                 TotalSizeFrom(is64, clear, enc, numSubSamples, 1, 0)
         IN  [ret        |-> IF totalSize < 0 THEN -1 ELSE totalSize,
              subSamples |-> [i \in 1..numSubSamples |->
                                 SubSampleAt(clear, enc, i)],
              resized    |-> TRUE,
              acquired   |-> (clear # NULL \/ enc # NULL),
              reads      |-> (IF clear = NULL THEN 0 ELSE numSubSamples)
                             + (IF enc = NULL THEN 0 ELSE numSubSamples),
              oob        |-> FALSE]

(***************************************************************************)
(* getBufferAndSize, lines 59-97.  A caller buffer is direct               *)
(* (GetDirectBufferAddress gives its address), array-backed ("array":      *)
(* array() gives a byte array whose elements are borrowed with             *)
(* GetByteArrayElements) or neither ("noarray": array() gives null).       *)
(* The test at line 85 adds two jint: when the exact sum is not a jint the *)
(* addition is undefined and the test may come out either way.             *)
(***************************************************************************)
RangeTestOutcomes(offset, limit, length) ==
    LET sum == ToInt32(length) + offset
    IN  IF sum >= INT32_MIN /\ sum <= INT32_MAX THEN {sum > limit} ELSE BOOLEAN

\* exceeds is the outcome of the test at line 85.  borrowed: the byte array's
\* elements are still borrowed when the function returns.
getBufferAndSize(kind, exceeds) ==
    IF kind = "noarray" THEN [err |-> "INVALID_OPERATION", borrowed |-> FALSE]
    ELSE IF exceeds THEN [err |-> "ERANGE", borrowed |-> FALSE]
    ELSE [err |-> "OK", borrowed |-> (kind = "array")]

(***************************************************************************)
(* The session: one JDescrambler.  A region is named by a positive number, *)
(* 0 is the null pointer.  data is the content of the region mMem maps.    *)
(***************************************************************************)
NoRegion == 0

NullMem == [region |-> NoRegion, size |-> 0]

\* mDescramblerSrcBuffer before any assignment: an empty hidl_memory.
NoDescriptor == [region |-> NoRegion, offset |-> 0, size |-> 0]

\* ensured: the size asked of the last ensureBufferCapacity that returned
\* true (-1: none yet); it is a record of the history, not a member.
NoSession ==
    [refs |-> 0, mDescrambler |-> "null", mDealer |-> NoRegion,
     mMem |-> NullMem, mDescramblerSrcBuffer |-> NoDescriptor,
     data |-> <<>>, mSharedMemLock |-> 0, ensured |-> -1]

\* (x + (a - 1)) & ~(a - 1) for a power of two a, lines 136 and 138.  size_t
\* does not wrap here: x is a non-negative ssize_t, at most half of size_t's
\* range.
AlignUp(x, a) ==
    LET y == x + (a - 1)
    IN  y - (y % a)

\* The outcomes of the allocation steps of ensureBufferCapacity.
AllocOutcomes == {"ok", "alloc_null", "heap_null", "handle_fail"}

\* ensureBufferCapacity, lines 127-160, on session s; align is
\* MemoryDealer::getAllocationAlignment(), fresh names the region a new
\* MemoryDealer would map.
\*   ret: the returned bool; allocated: a new MemoryDealer was created;
\*   nullDeref: mMem->getMemory() was called on the null mMem that a failed
\*   mDealer->allocate() returns.
\* A test that never finds the buffer large enough; C8 fails with it.
HasCapacityNever(s, neededSize) == FALSE

\* A test that wants the buffer to have exactly the size asked for; C17
\* fails with it.
HasCapacityExact(s, neededSize) ==
    s.mMem.region # NoRegion /\ s.mMem.size = neededSize

\* The test of line 128.
HasCapacity(s, neededSize) ==
    s.mMem.region # NoRegion /\ s.mMem.size >= neededSize

\* A size that is aligned but not rounded to the granule; C9 fails with it.
RoundedSizeNoGranule(neededSize, align) == AlignUp(neededSize, align)

\* The size of the new region, lines 135-138.
RoundedSize(neededSize, align) ==
    AlignUp(AlignUp(neededSize, align), Granule)

ensureBufferCapacity(s, neededSize, align, outcome, fresh) ==
    IF HasCapacity(s, neededSize)
    THEN [ret |-> TRUE, s |-> s, allocated |-> FALSE, nullDeref |-> FALSE]
    ELSE LET size == RoundedSize(neededSize, align)
             replaced == [s EXCEPT !.mDealer = fresh,
                                   !.mMem = [region |-> fresh, size |-> size],
                                   !.data = MemFill(size, 0)]
         IN  CASE outcome = "alloc_null" ->
                    [ret |-> FALSE,
                     s |-> [s EXCEPT !.mDealer = fresh, !.mMem = NullMem,
                                     !.data = <<>>],
                     allocated |-> TRUE, nullDeref |-> TRUE]
               [] outcome \in {"heap_null", "handle_fail"} ->
                    [ret |-> FALSE, s |-> replaced, allocated |-> TRUE,
                     nullDeref |-> FALSE]
               [] OTHER ->
                    [ret |-> TRUE,
                     s |-> [replaced EXCEPT !.mDescramblerSrcBuffer =
                              [region |-> fresh, offset |-> 0, size |-> size]],
                     allocated |-> TRUE, nullDeref |-> FALSE]

(***************************************************************************)
(* State.                                                                  *)
(***************************************************************************)
VARIABLES
    lp64,        \* the build: TRUE for LP64, FALSE for ILP32
    alignment,   \* MemoryDealer::getAllocationAlignment() of the platform
    context,     \* the Java object's mNativeContext: is a session bound
    setup,       \* "new", or how native_setup ended: "ok" / "threw"
    session,     \* the JDescrambler created by native_setup
    nextRegion,  \* the name of the next region a MemoryDealer maps
    calls,       \* number of native_descramble calls issued so far
    pc,          \* pc[t]: where caller t is in native_descramble
    call,        \* call[t]: the arguments and locals of caller t's call
    ub,          \* "none", or the undefined behaviour the process ran into
    probe,       \* inputs and result of one getSubSampleInfo evaluation
    releases     \* native_release calls made so far, up to MaxReleases

vars == <<lp64, alignment, context, setup, session, nextRegion, calls,
          pc, call, ub, probe, releases>>

\* native_release calls are counted up to this number.
MaxReleases == 2

\* Number of threads calling native_descramble concurrently.
NumCallers == 2

\* Length in bytes of a small caller buffer.
SmallLen == 4

\* A caller buffer spanning more than one granule.
BigLen == Granule + 2

Callers == 1..NumCallers

\* Initial content of a source buffer of len bytes: 1, 2, 3, 4, 4, ...
SrcBytes(len) == MemTake(<<Run(1, 1), Run(1, 2), Run(1, 3), Run(len, 4)>>, len)

\* Initial content of a destination buffer of len bytes: 7, 7, ...
DstBytes(len) == MemFill(len, 7)

\* The value of an unassigned local, and of a record field not set yet.
NoValue == -1

IdleCall ==
    [numSubSamples |-> 0, negative |-> FALSE, exactSum |-> 0,
     resized |-> FALSE, acquired |-> FALSE, reads |-> 0,
     totalLength |-> 0,
     srcKind |-> "none", srcLen |-> 0, srcData |-> <<>>,
     srcOffset |-> 0, srcLimit |-> 0,
     dstKind |-> "none", dstLen |-> 0, dstData |-> <<>>,
     dstOffset |-> 0, dstLimit |-> 0,
     srcArray |-> FALSE, dstArray |-> FALSE,
     err |-> "none", status |-> "none", bytesWritten |-> NoValue,
     detailedError |-> "", replied |-> "none", echoed |-> FALSE,
     memBefore |-> NullMem, dealerBefore |-> NoRegion,
     descBefore |-> NoDescriptor, dataBefore |-> <<>>,
     ensuredBefore |-> NoValue,
     allocated |-> FALSE, copiedIn |-> NoValue, copiedOut |-> NoValue,
     sentSrc |-> NoDescriptor, sentDst |-> NoDescriptor, remoteCalls |-> 0,
     ret |-> 0, exception |-> "none", code |-> "none", message |-> ""]

NoProbe ==
    [numSubSamples |-> 0, clear |-> NULL, enc |-> NULL, resizeOk |-> TRUE,
     done |-> FALSE,
     out |-> [ret |-> 0, subSamples |-> <<>>, resized |-> FALSE,
              acquired |-> FALSE, reads |-> 0, oob |-> FALSE]]

\* The platform's allocation alignment is a power of two.
Alignments == {32, 2 * Granule}

Init ==
    /\ lp64 \in BOOLEAN
    /\ alignment \in Alignments
    /\ context = FALSE
    /\ setup = "new"
    /\ session = NoSession
    /\ nextRegion = 1
    /\ calls = 0
    /\ pc = [t \in Callers |-> "idle"]
    /\ call = [t \in Callers |-> IdleCall]
    /\ ub = "none"
    /\ probe = NoProbe
    /\ releases = 0

(***************************************************************************)
(* Reference counting of the session (sp<JDescrambler>, incStrong,         *)
(* decStrong); the destructor, lines 106-111, runs when the last strong    *)
(* reference goes.                                                         *)
(***************************************************************************)
DecStrong(s) == IF s.refs = 1 THEN NoSession ELSE [s EXCEPT !.refs = @ - 1]

(***************************************************************************)
(* native_setup, lines 238-241, with the constructor, lines 99-104,        *)
(* GetDescrambler, lines 114-125, and setDescrambler, lines 47-57.  The    *)
(* Java constructor calls it once per object.  binder: the argument is     *)
(* null ("null_obj"), wraps no binder ("null_binder") or wraps one.        *)
(***************************************************************************)
GetDescrambler(binder) == IF binder = "binder" THEN "remote" ELSE "null"

native_setup ==
    /\ ub = "none"
    /\ setup = "new"
    /\ \E binder \in {"null_obj", "null_binder", "binder"} :
         /\ session' = [NoSession EXCEPT !.refs = 1,
                                         !.mDescrambler = GetDescrambler(binder)]
         /\ setup' = IF GetDescrambler(binder) = "null" THEN "threw" ELSE "ok"
    /\ context' = TRUE
    /\ UNCHANGED <<lp64, alignment, nextRegion, calls, pc, call, ub, probe, releases>>

(***************************************************************************)
(* native_release, lines 225-227: setDescrambler(env, thiz, NULL).         *)
(***************************************************************************)
\* A release that drops a reference whether or not a session is bound; C13
\* fails with it.
ReleasedUnconditionally(s, bound) == DecStrong(s)

\* setDescrambler(env, thiz, NULL), lines 47-57, on the session: the old
\* session's reference is dropped if there is an old session.
Released(s, bound) == IF bound THEN DecStrong(s) ELSE s

native_release ==
    /\ ub = "none"
    /\ setup # "new"
    /\ context' = FALSE
    /\ session' = Released(session, context)
    /\ releases' = IF releases < MaxReleases THEN releases + 1 ELSE releases
    /\ UNCHANGED <<lp64, alignment, setup, nextRegion, calls, pc, call, ub,
                   probe>>

(***************************************************************************)
(* native_descramble, lines 330-400, and JDescrambler::descramble, lines   *)
(* 162-219, as the steps of calling thread t:                              *)
(*   Enter        330-370  session lookup, getSubSampleInfo, buffer checks *)
(*   AcquireLock  177      Mutex::Autolock on mSharedMemLock               *)
(*   EnsureCapacity 179-181                                                *)
(*   CopyIn       183-184  memcpy into the region                          *)
(*   IssueRemote  186-203  the call to IDescrambler::descramble is sent    *)
(*   RemoteReply           the transport or the service answers            *)
(*   CopyOut      205-219  result check, memcpy out, unlock                *)
(*   Epilogue     381-399  array release, exception, return                *)
(*   Return                the caller has the result; the thread is idle   *)
(* Undefined behaviour (an access outside a buffer, a null dereference)    *)
(* sets ub and ends the behaviour: nothing is claimed about what follows.  *)
(***************************************************************************)

\* The array elements the loop at lines 276-286 reads, when it runs.
ReadsElements(l) ==
    /\ l.numSubSamples > 0 /\ l.numSubSamples < MAX_COUNT
    /\ l.resizeOk
    /\ (l.clear = NULL \/ Len(l.clear) >= l.numSubSamples)
    /\ (l.enc = NULL \/ Len(l.enc) >= l.numSubSamples)

\* Some array element the loop reads is negative.
HasNegative(l) ==
    /\ ReadsElements(l)
    /\ \E i \in 1..l.numSubSamples :
          \/ (l.clear # NULL /\ l.clear[i] < 0)
          \/ (l.enc # NULL /\ l.enc[i] < 0)

\* The sum of the elements the loop reads, in exact integer arithmetic.
RECURSIVE ExactSumTo(_, _)
ExactSumTo(l, i) ==
    IF i = 0 THEN 0
    ELSE ExactSumTo(l, i - 1)
         + (IF l.clear # NULL THEN l.clear[i] ELSE 0)
         + (IF l.enc # NULL THEN l.enc[i] ELSE 0)

ExactSum(l) == IF ReadsElements(l) THEN ExactSumTo(l, l.numSubSamples) ELSE 0

\* The function returns with exception exc pending and value ret.
Thrown(c, exc, ret) == [c EXCEPT !.exception = exc, !.ret = ret]

\* The call's record once the source buffer has been looked at (line 354),
\* and once the destination buffer has (line 361, or line 359 without one).
WithSrc(c, s) ==
    [c EXCEPT !.srcKind = s.kind, !.srcLen = s.len,
              !.srcData = SrcBytes(s.len),
              !.srcOffset = s.offset, !.srcLimit = s.limit]

WithDst(c, d) ==
    [c EXCEPT !.dstKind = d.kind, !.dstLen = d.len,
              !.dstData = DstBytes(d.len),
              !.dstOffset = d.offset, !.dstLimit = d.limit]

\* maxCalls bounds the calls of a behaviour; a call that is final is the
\* last one of its behaviour.
Enter(t, maxCalls, final, Requests) ==
    /\ ub = "none"
    /\ setup # "new"
    /\ pc[t] = "idle"
    /\ calls < maxCalls
    /\ calls' = IF final THEN maxCalls ELSE calls + 1
    /\ \E rq \in Requests :
         LET l == rq.layout
             s == rq.src
             d == rq.dst
             info == getSubSampleInfo(lp64, l.numSubSamples, l.clear, l.enc,
                                      l.resizeOk)
             c0 == [IdleCall EXCEPT !.numSubSamples = l.numSubSamples]
             c1 == [c0 EXCEPT
                      !.negative = HasNegative(l), !.exactSum = ExactSum(l),
                      !.resized = info.resized, !.acquired = info.acquired,
                      !.reads = info.reads]
         IN  IF ~context
             THEN \* lines 335-340
                  /\ call' = [call EXCEPT ![t] =
                                Thrown(c0, "IllegalStateException", -1)]
                  /\ pc' = [pc EXCEPT ![t] = "returned"]
                  /\ UNCHANGED <<session, ub>>
             ELSE IF info.oob
             THEN \* lines 276-282 read past the end of an array
                  /\ call' = [call EXCEPT ![t] = c1]
                  /\ pc' = [pc EXCEPT ![t] = "undefined"]
                  /\ ub' = "oob_read"
                  /\ UNCHANGED session
             ELSE IF info.ret < 0
             THEN \* lines 346-350
                  /\ call' = [call EXCEPT ![t] =
                                Thrown(c1, "IllegalArgumentException", -1)]
                  /\ pc' = [pc EXCEPT ![t] = "returned"]
                  /\ UNCHANGED <<session, ub>>
             ELSE \* lines 352-370
                  \E e1 \in RangeTestOutcomes(s.offset, s.limit, info.ret),
                     e2 \in RangeTestOutcomes(d.offset, d.limit, info.ret) :
                    LET r1 == getBufferAndSize(s.kind, e1)
                        r2 == getBufferAndSize(d.kind, e2)
                        dstChecked == r1.err = "OK" /\ d.kind # "absent"
                        err == IF dstChecked THEN r2.err ELSE r1.err
                        c2 == [WithSrc(c1, s) EXCEPT
                                 !.totalLength = info.ret,
                                 !.srcArray = r1.borrowed,
                                 !.dstArray = dstChecked /\ r2.borrowed]
                        c3 == IF r1.err = "OK" THEN WithDst(c2, d) ELSE c2
                    IN  IF err # "OK"
                        THEN /\ call' = [call EXCEPT ![t] =
                                  Thrown(c3, "IllegalArgumentException", -1)]
                             /\ pc' = [pc EXCEPT ![t] = "returned"]
                             /\ UNCHANGED <<session, ub>>
                        ELSE /\ call' = [call EXCEPT ![t] = c3]
                             /\ pc' = [pc EXCEPT ![t] = "lock"]
                             /\ session' = [session EXCEPT !.refs = @ + 1]
                             /\ UNCHANGED ub
    /\ UNCHANGED <<lp64, alignment, context, setup, nextRegion, probe, releases>>

\* A lock that is taken without waiting for its holder; C1 fails with it.
AcquireLockNoWait(t) ==
    /\ ub = "none"
    /\ pc[t] = "lock"
    /\ session' = [session EXCEPT !.mSharedMemLock = t]
    /\ pc' = [pc EXCEPT ![t] = "ensure"]
    /\ UNCHANGED <<lp64, alignment, context, setup, nextRegion, calls, call,
                   ub, probe, releases>>

\* line 177
AcquireLock(t) ==
    /\ ub = "none"
    /\ pc[t] = "lock"
    /\ session.mSharedMemLock = 0
    /\ session' = [session EXCEPT !.mSharedMemLock = t]
    /\ pc' = [pc EXCEPT ![t] = "ensure"]
    /\ UNCHANGED <<lp64, alignment, context, setup, nextRegion, calls, call,
                   ub, probe, releases>>

\* The Autolock's destructor: the lock is released when descramble returns.
Unlock(s) == [s EXCEPT !.mSharedMemLock = 0]

\* lines 179-181.  The call's record keeps the buffer as it was before.
EnsureCapacity(t) ==
    /\ ub = "none"
    /\ pc[t] = "ensure"
    /\ \E outcome \in AllocOutcomes :
         LET r == ensureBufferCapacity(session, call[t].totalLength,
                                       alignment, outcome, nextRegion)
             c == [call[t] EXCEPT
                     !.memBefore = session.mMem,
                     !.dealerBefore = session.mDealer,
                     !.descBefore = session.mDescramblerSrcBuffer,
                     !.dataBefore = session.data,
                     !.ensuredBefore = session.ensured,
                     !.allocated = r.allocated]
         IN  /\ nextRegion' = IF r.allocated THEN nextRegion + 1
                              ELSE nextRegion
             /\ IF r.nullDeref
                THEN /\ session' = r.s
                     /\ ub' = "null_deref"
                     /\ pc' = [pc EXCEPT ![t] = "undefined"]
                     /\ call' = [call EXCEPT ![t] = c]
                ELSE IF ~r.ret
                THEN /\ session' = Unlock(r.s)
                     /\ pc' = [pc EXCEPT ![t] = "epilogue"]
                     /\ call' = [call EXCEPT ![t] =
                                   [c EXCEPT !.err = "NO_MEMORY"]]
                     /\ UNCHANGED ub
                ELSE /\ session' = [r.s EXCEPT
                                      !.ensured = call[t].totalLength]
                     /\ pc' = [pc EXCEPT ![t] = "copyin"]
                     /\ call' = [call EXCEPT ![t] = c]
                     /\ UNCHANGED ub
    /\ UNCHANGED <<lp64, alignment, context, setup, calls, probe, releases>>

\* lines 183-184: memcpy(mMem->pointer(), srcPtr + srcOffset, totalLength)
CopyIn(t) ==
    /\ ub = "none"
    /\ pc[t] = "copyin"
    /\ LET c == call[t]
       IN  IF ~InBounds(c.srcData, c.srcOffset, c.totalLength)
           THEN /\ ub' = "oob_read"
                /\ pc' = [pc EXCEPT ![t] = "undefined"]
                /\ UNCHANGED <<session, call>>
           ELSE IF ~InBounds(session.data, 0, c.totalLength)
           THEN /\ ub' = "oob_write"
                /\ pc' = [pc EXCEPT ![t] = "undefined"]
                /\ UNCHANGED <<session, call>>
           ELSE /\ session' = [session EXCEPT !.data =
                      MemWrite(@, 0,
                               MemSlice(c.srcData, c.srcOffset, c.totalLength))]
                /\ call' = [call EXCEPT ![t].copiedIn = c.totalLength]
                /\ pc' = [pc EXCEPT ![t] = "call"]
                /\ UNCHANGED ub
    /\ UNCHANGED <<lp64, alignment, context, setup, nextRegion, calls, probe, releases>>

\* lines 186-203: both descriptors are mDescramblerSrcBuffer, both offsets 0
IssueRemote(t) ==
    /\ ub = "none"
    /\ pc[t] = "call"
    /\ IF session.mDescrambler = "null"
       THEN /\ ub' = "null_deref"
            /\ pc' = [pc EXCEPT ![t] = "undefined"]
            /\ UNCHANGED call
       ELSE /\ call' = [call EXCEPT
                          ![t].sentSrc = session.mDescramblerSrcBuffer,
                          ![t].sentDst = session.mDescramblerSrcBuffer,
                          ![t].remoteCalls = @ + 1]
            /\ pc' = [pc EXCEPT ![t] = "inflight"]
            /\ UNCHANGED ub
    /\ UNCHANGED <<lp64, alignment, context, setup, session, nextRegion,
                   calls, probe, releases>>

Min(a, b) == IF a <= b THEN a ELSE b

\* The answers to a call whose subsamples sum to total.  delivered = FALSE is
\* a transport failure (the callback never runs).  effect: what the service
\* did to the region its descriptors name: "echo" leaves it as it is,
\* "scramble" overwrites the transformed bytes (with bytes of value 9).
BytesWrittenChoices(total) ==
    {0, 1, total, total + 1, UINT32_MAX} \cap 0..UINT32_MAX

AllReplies(total) ==
    {[delivered |-> FALSE, status |-> "none", bytesWritten |-> NoValue,
      detailedError |-> "", effect |-> "echo"]}
    \cup [delivered : {TRUE}, status : {"OK"},
          bytesWritten : BytesWrittenChoices(total),
          detailedError : {""}, effect : {"echo"}]
    \cup [delivered : {TRUE}, status : {"OK"},
          bytesWritten : {total} \cap 0..UINT32_MAX,
          detailedError : {""}, effect : {"scramble"}]
    \cup [delivered : {TRUE}, status : {"ERROR_CAS_DECRYPT"},
          bytesWritten : {0}, detailedError : {"", "no key"},
          effect : {"scramble"}]

\* The answers of a service that works: the call is delivered and every
\* subsample byte is transformed, or the transport fails.
PlainReplies(total) ==
    {r \in AllReplies(total) :
        ~r.delivered \/ (r.status = "OK" /\ r.bytesWritten = total)}

\* The region after the service ran against descriptor desc.
ServiceEffect(s, desc, total, effect) ==
    IF effect = "scramble" /\ desc.region # NoRegion
       /\ desc.region = s.mMem.region
    THEN [s EXCEPT !.data =
            MemWrite(@, 0, MemFill(Min(total, desc.size), 9))]
    ELSE s

\* The blocking call returns: lines 197-203 (the callback) and the Return<>.
\* plain: the service is one that works.
RemoteReply(t, plain) ==
    /\ ub = "none"
    /\ pc[t] = "inflight"
    /\ \E r \in (IF plain THEN PlainReplies(call[t].totalLength)
                 ELSE AllReplies(call[t].totalLength)) :
         /\ call' = [call EXCEPT
                       ![t].err = IF r.delivered THEN "none"
                                  ELSE "FAILED_TRANSACTION",
                       ![t].status = r.status,
                       ![t].replied = r.status,
                       ![t].bytesWritten = r.bytesWritten,
                       ![t].detailedError = r.detailedError,
                       ![t].echoed = r.delivered /\ r.effect = "echo"]
         /\ session' = IF r.delivered
                       THEN ServiceEffect(session, call[t].sentDst,
                                          call[t].totalLength, r.effect)
                       ELSE session
    /\ pc' = [pc EXCEPT ![t] = "copyout"]
    /\ UNCHANGED <<lp64, alignment, context, setup, nextRegion, calls, ub,
                   probe, releases>>

\* The test of line 210.
BytesWrittenValid(is64, bytesWritten, totalLength) ==
    bytesWritten > 0 /\ ToSsize(is64, bytesWritten) <= totalLength

\* lines 205-219
CopyOut(t) ==
    /\ ub = "none"
    /\ pc[t] = "copyout"
    /\ LET c == call[t]
           inPlace == c.dstKind = "absent"
           target == IF inPlace THEN c.srcData ELSE c.dstData
           bytes == MemSlice(session.data, 0, c.bytesWritten)
           written == MemWrite(target, c.dstOffset, bytes)
       IN  IF c.err = "FAILED_TRANSACTION"
           THEN /\ session' = Unlock(session)
                /\ pc' = [pc EXCEPT ![t] = "epilogue"]
                /\ UNCHANGED <<call, ub>>
           ELSE IF c.status # "OK"
           THEN /\ session' = Unlock(session)
                /\ call' = [call EXCEPT ![t].err = "OK"]
                /\ pc' = [pc EXCEPT ![t] = "epilogue"]
                /\ UNCHANGED ub
           ELSE IF ~BytesWrittenValid(lp64, c.bytesWritten, c.totalLength)
           THEN /\ session' = Unlock(session)
                /\ call' = [call EXCEPT ![t].err = "OK",
                                        ![t].status = "ERROR_CAS_UNKNOWN"]
                /\ pc' = [pc EXCEPT ![t] = "epilogue"]
                /\ UNCHANGED ub
           ELSE IF ~InBounds(session.data, 0, c.bytesWritten)
           THEN /\ ub' = "oob_read"
                /\ pc' = [pc EXCEPT ![t] = "undefined"]
                /\ UNCHANGED <<session, call>>
           ELSE IF ~InBounds(target, c.dstOffset, c.bytesWritten)
           THEN /\ ub' = "oob_write"
                /\ pc' = [pc EXCEPT ![t] = "undefined"]
                /\ UNCHANGED <<session, call>>
           ELSE /\ session' = Unlock(session)
                /\ call' = [call EXCEPT
                              ![t].err = "OK",
                              ![t].copiedOut = c.bytesWritten,
                              ![t].srcData = IF inPlace THEN written ELSE @,
                              ![t].dstData = IF inPlace THEN @ ELSE written]
                /\ pc' = [pc EXCEPT ![t] = "epilogue"]
                /\ UNCHANGED ub
    /\ UNCHANGED <<lp64, alignment, context, setup, nextRegion, calls, probe, releases>>

\* The values an unassigned uint32_t local may hold.
Indeterminate32 == {0, UINT32_MAX}

\* A chain that looks at the status before the error; C11 fails with it.
ExceptionForStatusFirst(err, status) ==
    IF err = "NO_MEMORY" THEN "OutOfMemoryError"
    ELSE IF status # "OK" THEN "ServiceSpecificException"
    ELSE IF err = "FAILED_TRANSACTION" THEN "RemoteException"
    ELSE "none"

\* The exception thrown by the chain of lines 389-398.
ExceptionFor(err, status) ==
    IF err = "NO_MEMORY" THEN "OutOfMemoryError"
    ELSE IF err = "FAILED_TRANSACTION" THEN "RemoteException"
    ELSE IF status # "OK" THEN "ServiceSpecificException"
    ELSE "none"

\* A service exception without the service's message; C12 fails with it.
MessageForNone(err, status, detailedError) == ""

\* The message of the ServiceSpecificException, line 397 (and 307-328).
MessageFor(err, status, detailedError) ==
    IF err = "OK" /\ status # "OK" THEN detailedError ELSE ""

\* lines 381-399, and the release of the sp<JDescrambler> of line 335.  The
\* byte arrays are released; the exception depends on err and status;
\* bytesWritten is returned, converted to jint (it was never assigned when
\* descramble returned an error before the callback ran).
Epilogue(t) ==
    /\ ub = "none"
    /\ pc[t] = "epilogue"
    /\ LET c == call[t]
       IN  \E bw \in (IF c.bytesWritten = NoValue THEN Indeterminate32
                      ELSE {c.bytesWritten}) :
             call' = [call EXCEPT
               ![t].srcArray = FALSE,
               ![t].dstArray = FALSE,
               ![t].ret = ToInt32(bw),
               ![t].exception = ExceptionFor(c.err, c.status),
               ![t].code =
                   IF c.err = "OK" /\ c.status # "OK" THEN c.status ELSE "none",
               ![t].message = MessageFor(c.err, c.status, c.detailedError)]
    /\ session' = DecStrong(session)
    /\ pc' = [pc EXCEPT ![t] = "returned"]
    /\ UNCHANGED <<lp64, alignment, context, setup, nextRegion, calls, ub,
                   probe, releases>>

\* The caller has taken the result; its thread may call again.
Return(t) ==
    /\ ub = "none"
    /\ pc[t] = "returned"
    /\ pc' = [pc EXCEPT ![t] = "idle"]
    /\ call' = [call EXCEPT ![t] = IdleCall]
    /\ UNCHANGED <<lp64, alignment, context, setup, session, nextRegion,
                   calls, ub, probe, releases>>

(***************************************************************************)
(* The inputs of native_descramble.                                        *)
(***************************************************************************)
NumChoices == {-1, 0, MAX_COUNT} \cup 1..MaxSubSamples

Layout(n, clear, enc, resizeOk) ==
    [numSubSamples |-> n, clear |-> clear, enc |-> enc, resizeOk |-> resizeOk]

Layouts ==
    {Layout(n, c, e, ok) :
        n \in NumChoices, c \in {NULL, <<-1>>, <<2, Granule - 1>>},
        e \in {NULL, <<1>>}, ok \in BOOLEAN}

Offsets == {-1, 0, 1, INT32_MAX}

Buffer(kind, len, offset, limit) ==
    [kind |-> kind, len |-> len, offset |-> offset, limit |-> limit]

\* A buffer argument with its window's limit at the buffer's end.
Buffers ==
    {Buffer(k[1], k[2], o, k[2]) :
        k \in {<<"direct", SmallLen>>, <<"array", SmallLen>>,
               <<"direct", BigLen>>, <<"noarray", SmallLen>>},
        o \in Offsets}

NoBuffer == {Buffer("absent", 0, o, 0) : o \in Offsets}

Request(l, s, d) == [layout |-> l, src |-> s, dst |-> d]

\* Every combination of the argument choices.
AllRequests ==
    {Request(l, s, d) : l \in Layouts, s \in Buffers, d \in Buffers \cup NoBuffer}

\* Plain calls: one or two subsamples of positive lengths, descrambled in
\* place in a direct buffer that holds them.
PlainRequests ==
    {Request(Layout(n, <<2, Granule - 1>>, NULL, TRUE),
             Buffer("direct", BigLen, 0, BigLen),
             Buffer("absent", 0, 0, 0)) : n \in {1, 2}}

Step(t) ==
    \/ AcquireLock(t)
    \/ EnsureCapacity(t)
    \/ CopyIn(t)
    \/ IssueRemote(t)
    \/ CopyOut(t)
    \/ Epilogue(t)
    \/ Return(t)

(***************************************************************************)
(* Spec: one thread uses the object.  It sets the object up, issues up to  *)
(* MaxCalls calls and may release the object between calls.  The last call *)
(* takes any arguments and gets any answer; the calls before it, if any,   *)
(* are plain calls answered by a service that works, so that the last call *)
(* meets the session fresh and in each state such calls leave it in.       *)
(***************************************************************************)
Next ==
    \/ native_setup
    \/ (pc[1] = "idle" /\ native_release)
    \/ (calls < MaxCalls - 1 /\ Enter(1, MaxCalls, FALSE, PlainRequests))
    \/ Enter(1, MaxCalls, TRUE, AllRequests)
    \/ (calls < MaxCalls /\ RemoteReply(1, TRUE))
    \/ (calls = MaxCalls /\ RemoteReply(1, FALSE))
    \/ Step(1)

Spec == Init /\ [][Next]_vars

(***************************************************************************)
(* SpecConc: NumCallers threads call native_descramble on the one object   *)
(* concurrently, with plain arguments, while another thread may release    *)
(* the object at any time.                                                 *)
(***************************************************************************)
NextConc ==
    \/ native_setup
    \/ native_release
    \/ \E t \in Callers :
         \/ Enter(t, MaxCalls, FALSE, PlainRequests)
         \/ RemoteReply(t, TRUE)
         \/ Step(t)

SpecConc == Init /\ [][NextConc]_vars

(***************************************************************************)
(* SpecFair: SpecConc under fair scheduling and a service that answers.    *)
(* Every thread that can take a step of its call eventually takes it, the  *)
(* answer to a call in flight eventually arrives, and a thread that finds  *)
(* the lock free again and again eventually gets it.                       *)
(***************************************************************************)
SpecFair ==
    /\ SpecConc
    /\ \A t \in Callers :
          /\ WF_vars(Step(t))
          /\ WF_vars(RemoteReply(t, TRUE))
          /\ SF_vars(AcquireLock(t))

(***************************************************************************)
(* SpecLayout: getSubSampleInfo alone, on every count in NumChoices and    *)
(* every pair of arrays of up to MaxSubSamples lengths from LengthChoices. *)
(***************************************************************************)
LengthChoices == {-1, 0, 1, INT32_MAX}

Arrays == {NULL} \cup UNION {[1..k -> LengthChoices] : k \in 1..MaxSubSamples}

InitLayout ==
    /\ lp64 \in BOOLEAN
    /\ alignment = 32
    /\ context = FALSE
    /\ setup = "new"
    /\ session = NoSession
    /\ nextRegion = 1
    /\ calls = 0
    /\ pc = [t \in Callers |-> "idle"]
    /\ call = [t \in Callers |-> IdleCall]
    /\ ub = "none"
    /\ releases = 0
    /\ probe \in {[NoProbe EXCEPT !.numSubSamples = n, !.clear = c,
                                  !.enc = e, !.resizeOk = ok] :
                    n \in NumChoices, c \in Arrays, e \in Arrays,
                    ok \in BOOLEAN}

LayoutCompute ==
    /\ ~probe.done
    /\ probe' = [probe EXCEPT
                   !.done = TRUE,
                   !.out = getSubSampleInfo(lp64, probe.numSubSamples,
                                            probe.clear, probe.enc,
                                            probe.resizeOk)]
    /\ UNCHANGED <<lp64, alignment, context, setup, session, nextRegion,
                   calls, pc, call, ub, releases>>

SpecLayout == InitLayout /\ [][LayoutCompute]_vars

(***************************************************************************)
(* Properties.                                                             *)
(***************************************************************************)

\* Caller t is between the acquisition of the session lock (line 177) and
\* its release at the return of JDescrambler::descramble.
InCritical(t) == pc[t] \in {"ensure", "copyin", "call", "inflight", "copyout"}

\* C1: at most one caller at a time is between lock acquisition and lock
\* release, and that caller is the one the lock records as its holder: no
\* two callers overlap in growing the buffer, copying in, having a remote
\* call in flight or copying out.
C1_MutualExclusion ==
    \A t \in Callers :
        InCritical(t) =>
            /\ session.mSharedMemLock = t
            /\ \A u \in Callers \ {t} : ~InCritical(u)

\* One caller has a remote call in flight while another waits for the lock.
C1_Witness ==
    \E t \in Callers, u \in Callers :
        t # u /\ pc[t] = "inflight" /\ pc[u] = "lock"

\* C2: a call whose source window exceeds the source limit in exact
\* arithmetic (srcOffset + totalLength > srcLimit), or whose destination
\* window exceeds the destination limit when a destination buffer is
\* supplied, fails with IllegalArgumentException and the remote service is
\* never invoked.  (srcKind and dstKind are set once the call has computed
\* its total length and looked at the buffer.)
C2_BoundsRejection ==
    \A t \in Callers :
        LET c == call[t]
        IN  (\/ (c.srcKind # "none"
                 /\ c.srcOffset + c.totalLength > c.srcLimit)
             \/ (c.dstKind \notin {"none", "absent"}
                 /\ c.dstOffset + c.totalLength > c.dstLimit))
            => /\ pc[t] = "returned"
               /\ c.exception = "IllegalArgumentException"
               /\ c.remoteCalls = 0

\* The exact sum of a call's lengths does not fit the ssize_t accumulator.
\* (On LP64 a sum of fewer than MAX_COUNT jint always fits.)
FitsSsize(is64, x) == is64 \/ x <= INT32_MAX

\* C3: a call whose clear or encrypted lengths include a negative entry (the
\* case n = 1, clear = [-1] among them), or whose lengths sum to more than
\* the accumulator holds, fails with IllegalArgumentException, without the
\* transport buffer being allocated and without a remote call.  (The claim
\* also says that the subsample batch is not allocated.  That part is not
\* in the formula: the batch is sized at line 269, before any element is
\* read, for every count in range.)
C3_NegativeRejected ==
    \A t \in Callers :
        LET c == call[t]
        IN  (pc[t] # "idle" /\ (c.negative \/ ~FitsSsize(lp64, c.exactSum)))
            => /\ pc[t] = "returned"
               /\ c.exception = "IllegalArgumentException"
               /\ ~c.allocated
               /\ c.remoteCalls = 0

\* The inputs C4 is about: a count in range, arrays absent or of exactly
\* that length, no negative entry.
ValidLayout(l) ==
    /\ l.numSubSamples >= 1 /\ l.numSubSamples < MAX_COUNT
    /\ (l.clear = NULL \/ Len(l.clear) = l.numSubSamples)
    /\ (l.enc = NULL \/ Len(l.enc) = l.numSubSamples)
    /\ \A i \in 1..l.numSubSamples :
          /\ (l.clear # NULL => l.clear[i] >= 0)
          /\ (l.enc # NULL => l.enc[i] >= 0)

\* The result is the exact sum and the batch of the n pairs in input order.
ExactLayout(l, out) ==
    /\ out.ret = ExactSumTo(l, l.numSubSamples)
    /\ Len(out.subSamples) = l.numSubSamples
    /\ \A i \in 1..l.numSubSamples :
          /\ out.subSamples[i].numBytesOfClearData
               = (IF l.clear = NULL THEN 0 ELSE l.clear[i])
          /\ out.subSamples[i].numBytesOfEncryptedData
               = (IF l.enc = NULL THEN 0 ELSE l.enc[i])

\* C4 as stated: for every count in range and arrays of that length with
\* non-negative entries (an absent array counting as zeros), the layout
\* computation, once it has its batch, returns the exact sum and the batch
\* of the n pairs.
C4_ExactForAllInputs ==
    (probe.done /\ ValidLayout(probe) /\ probe.resizeOk)
    => ExactLayout(probe, probe.out)

\* C4, amended: the same, for the inputs whose exact sum fits the signed
\* accumulator (ssize_t).
C4_ExactWhenSumFits ==
    (/\ probe.done
     /\ ValidLayout(probe)
     /\ probe.resizeOk
     /\ FitsSsize(lp64, ExactSumTo(probe, probe.numSubSamples)))
    => ExactLayout(probe, probe.out)

\* A layout of MaxSubSamples pairs, both arrays present, has been computed
\* and its total is the exact, positive sum.
C4_Witness ==
    /\ probe.done
    /\ ValidLayout(probe)
    /\ probe.numSubSamples = MaxSubSamples
    /\ probe.clear # NULL /\ probe.enc # NULL
    /\ probe.out.ret = ExactSumTo(probe, MaxSubSamples)
    /\ probe.out.ret > INT32_MAX

\* C5: a call with a count n <= 0 or n >= MAX_COUNT ends with
\* IllegalArgumentException (IllegalStateException when no session is bound:
\* the layout is then never computed), the batch is not allocated, no array is
\* acquired or read, and the call reaches neither the transport buffer nor
\* the remote service.
C5_CountRejected ==
    \A t \in Callers :
        LET c == call[t]
        IN  (pc[t] # "idle" /\ (c.numSubSamples <= 0
                                \/ c.numSubSamples >= MAX_COUNT))
            => /\ pc[t] = "returned"
               /\ c.exception \in {"IllegalArgumentException",
                                   "IllegalStateException"}
               /\ ~c.resized /\ ~c.acquired /\ c.reads = 0
               /\ ~c.allocated
               /\ c.copiedIn = NoValue /\ c.copiedOut = NoValue
               /\ c.remoteCalls = 0

\* A call on a bound session with the count MAX_COUNT has been rejected.
C5_Witness ==
    \E t \in Callers :
        /\ pc[t] = "returned"
        /\ call[t].numSubSamples = MAX_COUNT
        /\ call[t].exception = "IllegalArgumentException"

\* The buffer the copy-out writes: the destination buffer, or the source
\* buffer when no destination is supplied.  Target: its content now;
\* TargetBefore: its content when the call began.
Target(c) == IF c.dstKind = "absent" THEN c.srcData ELSE c.dstData

TargetBefore(c) ==
    IF c.dstKind = "absent" THEN SrcBytes(c.srcLen) ELSE DstBytes(c.dstLen)

\* Caller t's call has gone through the result check of lines 205-217: it is
\* past it, or it ran into undefined behaviour in it.
Checked(t) ==
    \/ pc[t] \in {"epilogue", "returned"}
    \/ (pc[t] = "undefined" /\ call[t].replied # "none")

\* C6: when the service reports OK with bytesWritten = 0 or bytesWritten >
\* totalLength, no byte of the destination is written and the status handed
\* to the caller is ERROR_CAS_UNKNOWN; conversely bytes are copied out only
\* when the service reported OK with 0 < bytesWritten <= totalLength, and
\* then exactly bytesWritten bytes are.
C6_InvalidByteCount ==
    \A t \in Callers :
        LET c == call[t]
        IN  /\ (/\ Checked(t)
                /\ c.replied = "OK"
                /\ (c.bytesWritten = 0 \/ c.bytesWritten > c.totalLength))
               => /\ pc[t] # "undefined"
                  /\ c.copiedOut = NoValue
                  /\ Target(c) = TargetBefore(c)
                  /\ c.status = "ERROR_CAS_UNKNOWN"
                  /\ (pc[t] = "returned" => c.code = "ERROR_CAS_UNKNOWN")
            /\ c.copiedOut # NoValue
               => /\ c.replied = "OK"
                  /\ c.bytesWritten > 0
                  /\ c.bytesWritten <= c.totalLength
                  /\ c.copiedOut = c.bytesWritten

\* C7: when the service left the region as it was and reported OK with
\* bytesWritten = totalLength, the call ends with the destination window
\* [dstOffset, dstOffset + totalLength) holding the source bytes
\* [srcOffset, srcOffset + totalLength), the destination unchanged outside
\* that window, bytesWritten = totalLength returned and status OK.
C7_RoundTrip ==
    \A t \in Callers :
        LET c == call[t]
            window == MemSlice(SrcBytes(c.srcLen), c.srcOffset, c.totalLength)
        IN  (/\ pc[t] \in {"returned", "undefined"}
             /\ c.replied = "OK"
             /\ c.echoed
             /\ c.bytesWritten = c.totalLength)
            => /\ pc[t] = "returned"
               /\ c.status = "OK"
               /\ c.exception = "none"
               /\ c.ret = c.totalLength
               /\ MemLen(window) = c.totalLength
               /\ Target(c) = MemWrite(TargetBefore(c), c.dstOffset, window)
               /\ MemLen(Target(c)) = MemLen(TargetBefore(c))

\* The capacity of a transport buffer; 0 when there is none.
Capacity(mem) == IF mem.region = NoRegion THEN 0 ELSE mem.size

\* ensureBufferCapacity returned false in caller t's call.
EnsureFailed(t) ==
    pc[t] \in {"epilogue", "returned"} /\ call[t].err = "NO_MEMORY"

\* ensureBufferCapacity has just run in caller t's call: it returned true,
\* it returned false, or it dereferenced the null pointer that a failed
\* allocate() returns.
Ensured(t) ==
    \/ pc[t] = "copyin"
    \/ (pc[t] = "epilogue" /\ call[t].err = "NO_MEMORY")
    \/ (pc[t] = "undefined" /\ ub = "null_deref" /\ call[t].allocated
        /\ call[t].copiedIn = NoValue)

\* The session's buffer is what it was before caller t's call.
BufferUntouched(t) ==
    /\ session.mMem = call[t].memBefore
    /\ session.mDealer = call[t].dealerBefore
    /\ session.mDescramblerSrcBuffer = call[t].descBefore
    /\ session.data = call[t].dataBefore

\* C8 as stated: ensureCapacity(n) with n <= the current capacity (0 when
\* there is no buffer) succeeds without a reallocation and leaves region,
\* mapped pointer and descriptor unchanged.
C8_NoOpWithinCapacity ==
    \A t \in Callers :
        (Ensured(t) /\ call[t].totalLength <= Capacity(call[t].memBefore))
        => /\ pc[t] = "copyin"
           /\ ~call[t].allocated
           /\ BufferUntouched(t)

\* C8, amended: the same when a buffer exists.  (Without a buffer the call
\* allocates one, whatever n is.)
C8_NoOpWithinExistingBuffer ==
    \A t \in Callers :
        (/\ Ensured(t)
         /\ call[t].memBefore.region # NoRegion
         /\ call[t].totalLength <= call[t].memBefore.size)
        => /\ pc[t] = "copyin"
           /\ ~call[t].allocated
           /\ BufferUntouched(t)

\* A call has found the existing buffer large enough.
C8_Witness ==
    \E t \in Callers :
        /\ pc[t] = "copyin"
        /\ call[t].memBefore.region # NoRegion
        /\ call[t].totalLength <= call[t].memBefore.size
        /\ call[t].totalLength > 0

\* After the successful ensureBufferCapacity of caller t's call the buffer
\* holds m bytes, its size follows the rounding policy, and the descriptor
\* is that of a region mapped by this call, not the one issued before.
Grown(t, m) ==
    /\ session.mMem.size >= m
    /\ session.mMem.size % alignment = 0
    /\ session.mMem.size % Granule = 0
    /\ call[t].allocated
    /\ session.mMem.region \notin {NoRegion, call[t].memBefore.region}
    /\ session.mDescramblerSrcBuffer # call[t].descBefore
    /\ session.mDescramblerSrcBuffer =
         [region |-> session.mMem.region, offset |-> 0,
          size |-> session.mMem.size]

\* C9 as stated: a successful ensureCapacity(n) followed by a successful
\* ensureCapacity(m) with m > n leaves a capacity >= m that is a multiple of
\* the alignment and of 64 KiB, with the earlier descriptor replaced by that
\* of a fresh region.
C9_GrowsWhenLarger ==
    \A t \in Callers :
        (/\ pc[t] = "copyin"
         /\ call[t].ensuredBefore # NoValue
         /\ call[t].totalLength > call[t].ensuredBefore)
        => Grown(t, call[t].totalLength)

\* C9, amended: the same when m exceeds the capacity the earlier call left,
\* not merely the n it asked for.
C9_GrowsBeyondCapacity ==
    \A t \in Callers :
        (/\ pc[t] = "copyin"
         /\ call[t].ensuredBefore # NoValue
         /\ call[t].totalLength > Capacity(call[t].memBefore))
        => Grown(t, call[t].totalLength)

\* A call has grown the buffer an earlier call had sized.
C9_Witness ==
    \E t \in Callers :
        /\ pc[t] = "copyin"
        /\ call[t].ensuredBefore # NoValue
        /\ call[t].memBefore.region # NoRegion
        /\ call[t].totalLength > call[t].memBefore.size
        /\ session.mMem.size > call[t].memBefore.size

\* C10: when ensureCapacity fails, the session's buffer (region, mapped
\* pointer, descriptor; possibly absent) is as it was before the call, no
\* byte is copied, the remote service is not invoked and the call reports
\* OutOfMemoryError.
C10_FailedGrowLeavesBuffer ==
    \A t \in Callers :
        EnsureFailed(t)
        => /\ (pc[t] = "epilogue" => BufferUntouched(t))
           /\ call[t].copiedIn = NoValue
           /\ call[t].copiedOut = NoValue
           /\ call[t].remoteCalls = 0
           /\ (pc[t] = "returned" => call[t].exception = "OutOfMemoryError")

\* C11: when the remote call is not delivered, the call reports
\* RemoteException, never a service error and never success; the byte count
\* is not looked at (the status is not overridden), nothing is copied out
\* and the destination is unchanged.
C11_TransportFailure ==
    \A t \in Callers :
        LET c == call[t]
        IN  (pc[t] \in {"epilogue", "returned"}
             /\ c.err = "FAILED_TRANSACTION")
            => /\ c.copiedOut = NoValue
               /\ c.status = "none"
               /\ Target(c) = TargetBefore(c)
               /\ (pc[t] = "returned"
                   => (c.exception = "RemoteException" /\ c.code = "none"))

\* A call whose remote call was sent and not delivered has returned.
C11_Witness ==
    \E t \in Callers :
        /\ pc[t] = "returned"
        /\ call[t].err = "FAILED_TRANSACTION"
        /\ call[t].remoteCalls = 1
        /\ call[t].exception = "RemoteException"

\* C12: when the service ran and reported a status s other than OK with
\* message d, the call throws a ServiceSpecificException carrying exactly s
\* and d and writes no destination byte; a call that ended with NO_MEMORY or
\* with a transport failure never throws a ServiceSpecificException.
C12_ServiceError ==
    \A t \in Callers :
        LET c == call[t]
        IN  /\ (pc[t] \in {"epilogue", "returned"}
                /\ c.replied \notin {"none", "OK"})
               => /\ c.copiedOut = NoValue
                  /\ Target(c) = TargetBefore(c)
                  /\ (pc[t] = "returned"
                      => /\ c.exception = "ServiceSpecificException"
                         /\ c.code = c.replied
                         /\ c.message = c.detailedError)
            /\ (pc[t] = "returned"
                /\ c.err \in {"NO_MEMORY", "FAILED_TRANSACTION"})
               => c.exception # "ServiceSpecificException"

\* A call has thrown the service's error with the service's message.
C12_Witness ==
    \E t \in Callers :
        /\ pc[t] = "returned"
        /\ call[t].replied = "ERROR_CAS_DECRYPT"
        /\ call[t].exception = "ServiceSpecificException"
        /\ call[t].code = "ERROR_CAS_DECRYPT"
        /\ call[t].message = "no key"

\* Caller t holds the strong reference that line 335 took.
HoldsSession(t) ==
    pc[t] \in {"lock", "ensure", "copyin", "call", "inflight", "copyout",
               "epilogue"}

\* The session's strong references are the object's, while it is bound, and
\* one for each call in progress; a session without references is gone.
ReferencesBalanced ==
    ub = "none"
    => /\ session.refs = (IF context THEN 1 ELSE 0)
                         + Cardinality({t \in Callers : HoldsSession(t)})
       /\ (session.refs = 0 => session = NoSession)

\* A native_release that is not the first one changes nothing.
SecondReleaseIsNoOp ==
    (releases >= 1 /\ releases' > releases)
    => (session' = session /\ context' = context /\ pc' = pc /\ call' = call)

\* A call that begins when no session is bound returns at once with
\* IllegalStateException: the session is not touched, the call has no copy
\* and no remote call.
DescrambleAfterRelease ==
    \A t \in Callers :
        (pc[t] = "idle" /\ pc'[t] # "idle" /\ ~context)
        => /\ pc'[t] = "returned"
           /\ call'[t].exception = "IllegalStateException"
           /\ call'[t].ret = 0 - 1
           /\ ~call'[t].allocated
           /\ call'[t].copiedIn = NoValue
           /\ call'[t].remoteCalls = 0
           /\ session' = session

\* C13: release is idempotent.  After any operations, once native_release
\* has been called no session is bound and the object's reference has been
\* dropped exactly once, however often release is called (a second release
\* changes nothing), and a descramble issued after release fails with
\* IllegalStateException without touching a transport buffer or invoking the
\* remote service.
C13_ReleaseIdempotent ==
    /\ [](releases >= 1 => ~context)
    /\ []ReferencesBalanced
    /\ [][SecondReleaseIsNoOp]_vars
    /\ [][DescrambleAfterRelease]_vars

\* The object has been released twice and a call issued since has failed.
C13_Witness ==
    /\ releases = 2
    /\ ~context
    /\ \E t \in Callers :
         /\ pc[t] = "returned"
         /\ call[t].exception = "IllegalStateException"

\* C14: when native_setup finds no remote service (a null binder object or
\* an object without a binder) the construction fails with
\* NullPointerException and no session is left bound to the object, so that
\* no call on the object takes the session's lock, let alone calls through
\* the null mDescrambler.
C14_NoSessionWithoutService ==
    /\ (setup = "threw" => ~context)
    /\ \A t \in Callers :
          (HoldsSession(t) \/ (pc[t] = "undefined" /\ ub = "null_deref"))
          => setup = "ok"

\* Whenever no call is between lock acquisition and release the lock is
\* free: every exit path of JDescrambler::descramble has released it.
LockFreeWhenIdle ==
    (ub = "none" /\ \A t \in Callers : ~InCritical(t))
    => session.mSharedMemLock = 0

\* C15: the session lock is released on every exit path of descramble, so
\* it is free whenever no call is in progress; and under fair scheduling,
\* with a service that always answers, every caller that waits for the lock
\* eventually acquires it and its call returns.
C15_LockProgress ==
    /\ []LockFreeWhenIdle
    /\ \A t \in Callers : (pc[t] = "lock") ~> (pc[t] = "returned")

\* The same, as far as the process keeps running: a caller that waits for
\* the lock returns unless the process runs into undefined behaviour.
LockProgressUnlessUndefined ==
    /\ []LockFreeWhenIdle
    /\ \A t \in Callers :
          (pc[t] = "lock") ~> (pc[t] = "returned" \/ ub # "none")

\* C16: the elements of a caller buffer's backing array, borrowed by
\* getBufferAndSize, are released on every exit path: once a call has
\* returned, no borrow of the source or of the destination array is
\* outstanding.
C16_BorrowsReleased ==
    \A t \in Callers :
        pc[t] = "returned" => (~call[t].srcArray /\ ~call[t].dstArray)

\* A step of a session that exists before and after it, and after which
\* the process runs on, does not lower the capacity of the session's buffer.
CapacityKept ==
    (session.refs > 0 /\ session'.refs > 0 /\ ub' = "none")
    => Capacity(session'.mMem) >= Capacity(session.mMem)

\* C17: over any sequence of calls on one session the capacity of the
\* transport buffer never decreases: it is 0 before the first call and every
\* step of every call leaves it as it was or larger, calls that ask for
\* less than the current capacity included.
C17_CapacityMonotone ==
    /\ [](calls = 0 => Capacity(session.mMem) = 0)
    /\ [][CapacityKept]_vars

\* A call that asked for less than the capacity an earlier call left has
\* returned, and the buffer still spans more than one granule.
C17_Witness ==
    \E t \in Callers :
        /\ pc[t] = "returned"
        /\ call[t].totalLength < Capacity(call[t].memBefore)
        /\ call[t].memBefore.size > Granule
        /\ session.mMem.size = call[t].memBefore.size

\* The windows of call c are well formed: each buffer gives an address and
\* each offset is at most its limit.
ZeroLengthWindowsValid(c) ==
    /\ c.srcKind \in {"direct", "array"}
    /\ c.srcOffset <= c.srcLimit
    /\ c.dstKind \in {"direct", "array", "absent"}
    /\ (c.dstKind # "absent" => c.dstOffset <= c.dstLimit)

\* C18: a call whose total length is 0 passes the local validation and,
\* unless the buffer cannot be allocated, invokes the remote service; if the
\* service then reports OK the call does not complete as a success: the
\* status becomes ERROR_CAS_UNKNOWN and nothing is copied to the
\* destination.  (srcKind is set once the layout has been accepted.)
C18_ZeroLength ==
    \A t \in Callers :
        LET c == call[t]
        IN  (c.srcKind # "none" /\ c.totalLength = 0)
            => /\ (pc[t] = "returned" /\ ZeroLengthWindowsValid(c))
                  => c.exception # "IllegalArgumentException"
               /\ (pc[t] = "returned"
                   /\ c.exception \notin {"IllegalArgumentException",
                                          "OutOfMemoryError"})
                  => c.remoteCalls = 1
               /\ (Checked(t) /\ c.replied = "OK")
                  => /\ pc[t] # "undefined"
                     /\ c.status = "ERROR_CAS_UNKNOWN"
                     /\ c.copiedOut = NoValue
                     /\ Target(c) = TargetBefore(c)
                     /\ (pc[t] = "returned"
                         => /\ c.exception = "ServiceSpecificException"
                            /\ c.code = "ERROR_CAS_UNKNOWN")

\* The descriptor of the region the session has mapped now.
CurrentDescriptor ==
    [region |-> session.mMem.region, offset |-> 0, size |-> session.mMem.size]

\* C19: whenever a remote call is in flight, the source and destination
\* descriptors handed to the service describe the region the session has
\* mapped, that region holds at least totalLength bytes, and its first
\* totalLength bytes are the source bytes [srcOffset, srcOffset +
\* totalLength); no stale or never-assigned descriptor is handed over.
C19_DescriptorCurrent ==
    \A t \in Callers :
        LET c == call[t]
        IN  pc[t] = "inflight"
            => /\ session.mMem.region # NoRegion
               /\ c.sentSrc = CurrentDescriptor
               /\ c.sentDst = CurrentDescriptor
               /\ session.mMem.size >= c.totalLength
               /\ MemSlice(session.data, 0, c.totalLength)
                    = MemSlice(SrcBytes(c.srcLen), c.srcOffset, c.totalLength)

\* The window of the target buffer that the call validated: the destination
\* window when a destination is supplied, the source window when the
\* transform is in place.
WindowLo(c) == IF c.dstKind = "absent" THEN c.srcOffset ELSE c.dstOffset

WindowHi(c) == IF c.dstKind = "absent" THEN c.srcLimit ELSE c.dstLimit

\* C20: every byte the copy-out step writes lies inside the window validated
\* for the call, [dstOffset, dstLimit) of a supplied destination and
\* [srcOffset, srcLimit) of the source when the transform is in place; the
\* copy-out never writes outside the target buffer.
C20_CopyOutInsideWindow ==
    /\ ub # "oob_write"
    /\ \A t \in Callers :
           LET c == call[t]
           IN  (pc[t] \in {"epilogue", "returned"} /\ c.copiedOut > 0)
               => /\ WindowLo(c) <= c.dstOffset
                  /\ c.dstOffset + c.copiedOut <= WindowHi(c)

====
